---- MODULE Spec2Model ----
(***************************************************************************)
(* Model of official/nlp/data/tagging_data_lib.py: the subword expander    *)
(* (_tokenize_example), the sliding-window generator and max-context       *)
(* selector (convert_examples_to_features, _check_is_max_context), the     *)
(* feature assembler (_convert_single_example) and the batch driver        *)
(* (write_example_to_file).                                                *)
(*                                                                         *)
(* Conventions.  Python positions are 0-based and are kept 0-based here    *)
(* (start offsets, labeled positions); TLA+ sequences are 1-based, so the  *)
(* token at Python position p is seq[p + 1].  Python None / 0 for          *)
(* doc_stride are both falsy and are both written 0.  Python bools are     *)
(* ints (True == 1), so best_context flags are written 0 / 1 throughout.   *)
(***************************************************************************)
EXTENDS Integers, Sequences, FiniteSets, Bags, TLC

(* ------------------------------ bounds --------------------------------- *)
MaxWords == 3
MaxSeqLength == 5
MaxStride == 2
MaxExamples == 2
MaxBatchWords == 1
MaxBatchSeqLength == 5
MaxBatchStride == 1
MaxTokens == 4
LongPieces == 103
LongSeqLength == 106
FairMaxWords == 2
FairMaxExamples == 1

(* ------------------------- program constants --------------------------- *)
_PADDING_LABEL_ID == -1

_UNK_TOKEN == <<"[UNK]", 0>>

CLS == <<"[CLS]", 0>>

SEP == <<"[SEP]", 0>>

(* ------------------------------ helpers -------------------------------- *)
Min(a, b) == IF a < b THEN a ELSE b

SeqsUpTo(S, n) == UNION {[1..k -> S] : k \in 0..n}

Range(s) == {s[i] : i \in 1..Len(s)}

\* list.count(x)
Count(s, x) == Cardinality({i \in 1..Len(s) : s[i] = x})

\* [x] * n
Repeat(x, n) == [i \in 1..n |-> x]

\* s[a:b] with Python (0-based, half-open) bounds, 0 <= a <= b <= len(s)
Slice(s, a, b) == SubSeq(s, a + 1, b)

SeqToBag(s) == [x \in Range(s) |-> Count(s, x)]

(* ------------------------------ tokenizer ------------------------------ *)
\* The external tokenizer: a fixed instance with a lower-case vocabulary.
\* "", "zz" and the cased "What" yield no piece, "a", "what" and "great"
\* one, "weekend" two, "long" LongPieces pieces.
Pieces(word) ==
  CASE word = "" -> 0
    [] word = "zz" -> 0
    [] word = "What" -> 0
    [] word = "a" -> 1
    [] word = "what" -> 1
    [] word = "great" -> 1
    [] word = "weekend" -> 2
    [] word = "long" -> LongPieces

\* tokenizer.tokenize(word): the j-th piece of a word is <<word, j>>
Tokenize(word) == [j \in 1..Pieces(word) |-> <<word, j>>]

WordIndex(w) ==
  CASE w = "a" -> 1
    [] w = "weekend" -> 2
    [] w = "long" -> 3
    [] w = "what" -> 5
    [] w = "great" -> 6
    [] OTHER -> 4

\* tokenizer.convert_tokens_to_ids: a vocabulary lookup, injective on tokens
TokenId(t) ==
  IF t = CLS THEN 101
  ELSE IF t = SEP THEN 102
  ELSE IF t = _UNK_TOKEN THEN 100
  ELSE 1000 * WordIndex(t[1]) + t[2]

ConvertTokensToIds(tokens) == [i \in 1..Len(tokens) |-> TokenId(tokens[i])]

(* ---------------------------- InputExample ----------------------------- *)
\* InputExample.__init__
InputExample(sentence_id, words, label_ids, best_context) ==
  [sentence_id |-> sentence_id, words |-> words, label_ids |-> label_ids,
   best_context |-> best_context]

\* InputExample.add_word_and_label_id (best_context is never None here)
AddWordAndLabelId(ex, word, label_id, best_context) ==
  [ex EXCEPT !.words = Append(@, word),
             !.label_ids = Append(@, label_id),
             !.best_context = Append(@, best_context)]

\* HasRealLabel without the count of padding labels
HasRealLabelAnyLabel(label_ids) == Len(label_ids) # 0

\* the "has a label that is not all -1" test of _tokenize_example
HasRealLabel(label_ids) ==
  /\ Count(label_ids, _PADDING_LABEL_ID) # Len(label_ids)
  /\ Len(label_ids) # 0

(* -------------------------- _tokenize_example -------------------------- *)
\* TokenizeRaises sparing the padding label
TokenizeRaisesNonReserved(example, use_neg_labels) ==
  /\ Len(example.words) > 0
  /\ ~use_neg_labels
  /\ \E k \in 1..Len(example.label_ids) :
       example.label_ids[k] < 0 /\ example.label_ids[k] # _PADDING_LABEL_ID

\* raise ValueError("Unexpected negative label_id"): tested at the top of
\* every iteration of the loop over the words, so only if there is a word
TokenizeRaises(example, use_neg_labels) ==
  /\ Len(example.words) > 0
  /\ ~use_neg_labels
  /\ \E k \in 1..Len(example.label_ids) : example.label_ids[k] < 0

\* TokenizeSubwords without the test against the budget
TokenizeSubwordsNoBudget(word, max_length) ==
  LET subwords == Tokenize(word)
  IN IF Len(subwords) = 0 /\ word # "" THEN <<_UNK_TOKEN>> ELSE subwords

\* subwords of one word after the [UNK] substitution (max_length is already
\* reduced by 2); "and word" is false for the empty string
\* TokenizeSubwords without the "not subwords" test: a word of zero pieces
\* contributes nothing
TokenizeSubwordsDropsUnknown(word, max_length) ==
  IF Len(Tokenize(word)) > max_length /\ word # ""
  THEN <<_UNK_TOKEN>>
  ELSE Tokenize(word)

TokenizeSubwords(word, max_length) ==
  LET subwords == Tokenize(word)
  IN IF (Len(subwords) = 0 \/ Len(subwords) > max_length) /\ word # ""
     THEN <<_UNK_TOKEN>>
     ELSE subwords

\* the lower-casing passed as text_preprocessing in the docstring example
Lower(word) == IF word = "What" THEN "what" ELSE word

\* "if text_preprocessing: word = text_preprocessing(word)"; "none" is None
Preprocess(text_preprocessing, word) ==
  IF text_preprocessing = "lower" THEN Lower(word) ELSE word

\* the inner loop "for j, subword in enumerate(subwords)"
RECURSIVE AddSubwords(_, _, _, _)
AddSubwords(new_example, subwords, label, j) ==
  IF j > Len(subwords) THEN new_example
  ELSE LET subword_label == IF j = 1 THEN label ELSE _PADDING_LABEL_ID
           best_context == IF subword_label # _PADDING_LABEL_ID THEN 1 ELSE 0
       IN AddSubwords(AddWordAndLabelId(new_example, subwords[j],
                                        subword_label, best_context),
                      subwords, label, j + 1)

\* TokenizeLoop comparing with >= : a word that fills the example exactly
\* starts a new one
RECURSIVE TokenizeLoopEager(_, _, _, _, _, _)
TokenizeLoopEager(example, max_length, text_preprocessing, i, new_examples, new_example) ==
  IF i > Len(example.words)
  THEN IF Len(new_example.words) # 0 /\ HasRealLabel(new_example.label_ids)
       THEN Append(new_examples, new_example)
       ELSE new_examples
  ELSE LET word == Preprocess(text_preprocessing, example.words[i])
           subwords == TokenizeSubwords(word, max_length)
           overflow == Len(subwords) + Len(new_example.words) >= max_length
           closed == IF overflow /\ HasRealLabel(new_example.label_ids)
                     THEN Append(new_examples, new_example)
                     ELSE new_examples
           current == IF overflow
                      THEN InputExample(example.sentence_id, <<>>, <<>>, <<>>)
                      ELSE new_example
       IN TokenizeLoopEager(example, max_length, text_preprocessing, i + 1,
                            closed,
                            AddSubwords(current, subwords,
                                        example.label_ids[i], 1))

\* the loop "for i, word in enumerate(example.words)" followed by the final
\* append; i is the 1-based index of the next word
RECURSIVE TokenizeLoop(_, _, _, _, _, _)
TokenizeLoop(example, max_length, text_preprocessing, i, new_examples, new_example) ==
  IF i > Len(example.words)
  THEN IF Len(new_example.words) # 0 /\ HasRealLabel(new_example.label_ids)
       THEN Append(new_examples, new_example)
       ELSE new_examples
  ELSE LET word == Preprocess(text_preprocessing, example.words[i])
           subwords == TokenizeSubwords(word, max_length)
           overflow == Len(subwords) + Len(new_example.words) > max_length
           closed == IF overflow /\ HasRealLabel(new_example.label_ids)
                     THEN Append(new_examples, new_example)
                     ELSE new_examples
           current == IF overflow
                      THEN InputExample(example.sentence_id, <<>>, <<>>, <<>>)
                      ELSE new_example
       IN TokenizeLoop(example, max_length, text_preprocessing, i + 1, closed,
                       AddSubwords(current, subwords, example.label_ids[i], 1))

\* _tokenize_example on a call that does not raise
TokenizeExample(example, max_length, text_preprocessing) ==
  TokenizeLoop(example, max_length - 2, text_preprocessing, 1, <<>>,
               InputExample(example.sentence_id, <<>>, <<>>, <<>>))

(* ----------------------- _convert_single_example ----------------------- *)
\* number of iterations of "while len(input_ids) < max_seq_length"
PadCount(len, max_seq_length) ==
  IF len < max_seq_length THEN max_seq_length - len ELSE 0

ConvertSingleExample(example, max_seq_length) ==
  LET tokens == <<CLS>> \o example.words \o <<SEP>>
      input_ids == ConvertTokensToIds(tokens)
      label_ids == <<_PADDING_LABEL_ID>> \o example.label_ids
                      \o <<_PADDING_LABEL_ID>>
      context == <<0>> \o example.best_context \o <<0>>
      pad == PadCount(Len(input_ids), max_seq_length)
  IN [input_ids |-> input_ids \o Repeat(0, pad),
      input_mask |-> Repeat(1, Len(input_ids)) \o Repeat(0, pad),
      segment_ids |-> Repeat(0, Len(input_ids)) \o Repeat(0, pad),
      label_ids |-> label_ids \o Repeat(_PADDING_LABEL_ID, pad),
      sentence_id |-> example.sentence_id,
      best_context |-> context \o Repeat(0, pad)]

(* -------------------- convert_examples_to_features --------------------- *)
\* sub_tokens of one word after the [UNK] substitution of the window path
ConvertSubTokens(token) ==
  LET sub_tokens == Tokenize(token)
  IN IF Len(sub_tokens) = 0 /\ token # "" THEN <<_UNK_TOKEN>> ELSE sub_tokens

\* SubLabels that repeats the word's label on every sub_token
SubLabelsEveryPiece(n, label) == [j \in 1..n |-> label]

\* labels of the sub_tokens of one word: the word's label, then -1
SubLabels(n, label) ==
  [j \in 1..n |-> IF j = 1 THEN label ELSE _PADDING_LABEL_ID]

\* the flattening loop "for i, (token, label) in enumerate(zip(...))":
\* all_doc_tokens
RECURSIVE FlattenTokens(_, _)
FlattenTokens(example, i) ==
  IF i > Min(Len(example.words), Len(example.label_ids)) THEN <<>>
  ELSE ConvertSubTokens(example.words[i]) \o FlattenTokens(example, i + 1)

\* the flattening loop: all_doc_labels
RECURSIVE FlattenLabels(_, _)
FlattenLabels(example, i) ==
  IF i > Min(Len(example.words), Len(example.label_ids)) THEN <<>>
  ELSE SubLabels(Len(ConvertSubTokens(example.words[i])), example.label_ids[i])
         \o FlattenLabels(example, i + 1)

\* the flattening loop: example_label_ix, the 0-based positions whose
\* sublabel is not the padding label, in increasing order
LabelIx(labels, p) ==
  LET ix == {q \in p..(Len(labels) - 1) : labels[q + 1] # _PADDING_LABEL_ID}
  IN [k \in 1..Cardinality(ix) |->
        CHOOSE q \in ix : Cardinality({r \in ix : r < q}) = k - 1]

\* length of the span starting at start_offset
SpanLength(total, start_offset, max_tokens_for_doc) ==
  IF total - start_offset > max_tokens_for_doc
  THEN max_tokens_for_doc
  ELSE total - start_offset

\* np.array(example_label_ix)[mask]: the labeled positions inside the span
RECURSIVE SpanLabels(_, _, _, _)
SpanLabels(label_ix, k, start, length) ==
  IF k > Len(label_ix) THEN <<>>
  ELSE (IF label_ix[k] >= start /\ label_ix[k] < start + length
        THEN <<label_ix[k]>> ELSE <<>>)
         \o SpanLabels(label_ix, k + 1, start, length)

\* NextStart advancing by the stride alone
NextStartNoMin(start_offset, length, doc_stride) == start_offset + doc_stride

\* NextStart advancing one short of the stride
NextStartOffByOne(start_offset, length, doc_stride) ==
  start_offset + Min(length, doc_stride - 1)

\* start_offset += min(length, doc_stride)
NextStart(start_offset, length, doc_stride) ==
  start_offset + Min(length, doc_stride)

_DocSpan(start, length, labels, best_context) ==
  [start |-> start, length |-> length, labels |-> labels,
   best_context |-> best_context]

(* ------------------------ _check_is_max_context ------------------------ *)
\* score = min(left, right) + 0.01 * length, scaled by 100 to stay in the
\* integers.  For span lengths up to 106 the comparison of the IEEE doubles
\* min + 0.01 * length agrees with the comparison of 100 * min + length on
\* every pair of (min, length), ties included; the first pair on which they
\* differ has a span of length 107.
Score(doc_span, position) ==
  LET end == doc_span.start + doc_span.length - 1
      num_left_context == position - doc_span.start
      num_right_context == end - position
  IN 100 * Min(num_left_context, num_right_context) + doc_span.length

\* MaxContextLoop comparing with >= : the later span wins a tie
RECURSIVE MaxContextLoopLaterWins(_, _, _, _, _)
MaxContextLoopLaterWins(doc_spans, position, span_index, best_score, best_span_index) ==
  IF span_index > Len(doc_spans) THEN best_span_index
  ELSE LET doc_span == doc_spans[span_index]
           end == doc_span.start + doc_span.length - 1
       IN IF position < doc_span.start \/ position > end
          THEN MaxContextLoopLaterWins(doc_spans, position, span_index + 1,
                                       best_score, best_span_index)
          ELSE IF best_span_index = 0 \/ Score(doc_span, position) >= best_score
          THEN MaxContextLoopLaterWins(doc_spans, position, span_index + 1,
                                       Score(doc_span, position), span_index)
          ELSE MaxContextLoopLaterWins(doc_spans, position, span_index + 1,
                                       best_score, best_span_index)

\* the loop over enumerate(doc_spans); best_span_index 0 stands for None
RECURSIVE MaxContextLoop(_, _, _, _, _)
MaxContextLoop(doc_spans, position, span_index, best_score, best_span_index) ==
  IF span_index > Len(doc_spans) THEN best_span_index
  ELSE LET doc_span == doc_spans[span_index]
           end == doc_span.start + doc_span.length - 1
       IN IF position < doc_span.start \/ position > end
          THEN MaxContextLoop(doc_spans, position, span_index + 1,
                              best_score, best_span_index)
          ELSE IF best_span_index = 0 \/ Score(doc_span, position) > best_score
          THEN MaxContextLoop(doc_spans, position, span_index + 1,
                              Score(doc_span, position), span_index)
          ELSE MaxContextLoop(doc_spans, position, span_index + 1,
                              best_score, best_span_index)

\* _check_is_max_context comparing scores instead of span indices
_check_is_max_context_by_score(doc_spans, cur_span_index, position) ==
  LET best == MaxContextLoop(doc_spans, position, 1, 0, 0)
  IN /\ best # 0
     /\ doc_spans[cur_span_index].start <= position
     /\ position < doc_spans[cur_span_index].start
                     + doc_spans[cur_span_index].length
     /\ Score(doc_spans[cur_span_index], position)
          = Score(doc_spans[best], position)

_check_is_max_context(doc_spans, cur_span_index, position) ==
  cur_span_index = MaxContextLoop(doc_spans, position, 1, 0, 0)

(* ------------------------ max-context selection ------------------------ *)
\* doc_span.best_context after the loop "for v in example_label_ix"
MarkBestContext(doc_spans, doc_span_index, label_ix) ==
  LET doc_span == doc_spans[doc_span_index]
  IN [q \in 1..doc_span.length |->
        IF \E k \in 1..Len(label_ix) :
             /\ label_ix[k] = doc_span.start + q - 1
             /\ _check_is_max_context(doc_spans, doc_span_index, label_ix[k])
        THEN 1
        ELSE doc_span.best_context[q]]

\* has_is_max_context of one span
HasIsMaxContext(doc_spans, doc_span_index, label_ix) ==
  \E k \in 1..Len(label_ix) :
    /\ ~(label_ix[k] < doc_spans[doc_span_index].start
         \/ label_ix[k] >= doc_spans[doc_span_index].start
                             + doc_spans[doc_span_index].length)
    /\ _check_is_max_context(doc_spans, doc_span_index, label_ix[k])

\* optimal_span_list: the spans that own a position, flags set, in order
RECURSIVE OptimalSpanList(_, _, _)
OptimalSpanList(doc_spans, doc_span_index, label_ix) ==
  IF doc_span_index > Len(doc_spans) THEN <<>>
  ELSE (IF HasIsMaxContext(doc_spans, doc_span_index, label_ix)
        THEN <<[doc_spans[doc_span_index] EXCEPT
                  !.best_context =
                     MarkBestContext(doc_spans, doc_span_index, label_ix)]>>
        ELSE <<>>)
         \o OptimalSpanList(doc_spans, doc_span_index + 1, label_ix)

\* all_examples: one InputExample per span of optimal_span_list
\* SpanExamples that leaves every best_context flag unset
SpanExamplesNoFlags(sentence_id, tokens, labels, optimal) ==
  [k \in 1..Len(optimal) |->
     InputExample(sentence_id,
                  Slice(tokens, optimal[k].start,
                        optimal[k].start + optimal[k].length),
                  Slice(labels, optimal[k].start,
                        optimal[k].start + optimal[k].length),
                  Repeat(0, optimal[k].length))]

SpanExamples(sentence_id, tokens, labels, optimal) ==
  [k \in 1..Len(optimal) |->
     InputExample(sentence_id,
                  Slice(tokens, optimal[k].start,
                        optimal[k].start + optimal[k].length),
                  Slice(labels, optimal[k].start,
                        optimal[k].start + optimal[k].length),
                  optimal[k].best_context)]

(* ------------------------ write_example_to_file ------------------------ *)
count_labels(example) ==
  Len(example.label_ids) - Count(example.label_ids, _PADDING_LABEL_ID)

\* examples_n: the examples with at least one real label, in order
RECURSIVE FilterLabeled(_, _)
FilterLabeled(exs, i) ==
  IF i > Len(exs) THEN <<>>
  ELSE (IF count_labels(exs[i]) # 0 THEN <<exs[i]>> ELSE <<>>)
         \o FilterLabeled(exs, i + 1)

\* InsertByCount keeping one example per key
RECURSIVE InsertByCountOnePerKey(_, _)
InsertByCountOnePerKey(sorted, x) ==
  IF sorted = <<>> THEN <<x>>
  ELSE IF count_labels(x) < count_labels(Head(sorted))
  THEN <<x>> \o sorted
  ELSE IF count_labels(x) = count_labels(Head(sorted))
  THEN <<x>> \o Tail(sorted)
  ELSE <<Head(sorted)>> \o InsertByCountOnePerKey(Tail(sorted), x)

\* insertion of x into a list sorted by key, after the elements of equal key
RECURSIVE InsertByCount(_, _)
InsertByCount(sorted, x) ==
  IF sorted = <<>> THEN <<x>>
  ELSE IF count_labels(x) < count_labels(Head(sorted))
  THEN <<x>> \o sorted
  ELSE <<Head(sorted)>> \o InsertByCount(Tail(sorted), x)

\* sorted(examples_n, key=count_labels): stable, ascending
RECURSIVE SortedByCount(_, _)
SortedByCount(exs, i) ==
  IF i = 0 THEN <<>>
  ELSE InsertByCount(SortedByCount(exs, i - 1), exs[i])

\* the loop over tokenized_examples of perform_convert_to_features
TfExamples(tokenized, max_seq_length) ==
  [k \in 1..Len(tokenized) |-> ConvertSingleExample(tokenized[k], max_seq_length)]

(* ------------------------------- state --------------------------------- *)
VARIABLES
  call,                   \* the function called: "write", "tokenize",
                          \* "convert" or "single"
  examples,               \* write_example_to_file: the list of source examples
  example,                \* the example being converted
  max_seq_length,
  doc_stride,
  use_neg_labels,
  text_preprocessing,     \* "none" (None) or "lower"
  pc,                     \* position in the called function
  examples_s,             \* write_example_to_file: filtered and sorted list
  idx,                    \* 1-based index into examples_s of the next example
  all_tf_examples,
  written,                \* records written to the TFRecord file, in order
  num_tokenized_examples, \* the value returned by write_example_to_file
  run,                    \* 1 for the first call, 2 for the call on the
                          \* reordered list
  first_written,          \* written and returned count of the first call
  first_num,
  all_doc_tokens,
  all_doc_labels,
  example_label_ix,
  doc_spans,
  start_offset,
  all_spans,              \* every span the loop computed, dropped ones
                          \* included (history of start_offset and length)
  optimal_span_list,
  tokenized_examples,     \* the list returned by _tokenize_example or
                          \* convert_examples_to_features
  raised,                 \* a ValueError left the called function
  tf_example              \* _convert_single_example called directly: the
                          \* record returned, as a list of 0 or 1 element

vars == <<call, examples, example, max_seq_length, doc_stride, use_neg_labels,
          text_preprocessing, pc, examples_s, idx, all_tf_examples, written,
          num_tokenized_examples, run, first_written, first_num,
          all_doc_tokens, all_doc_labels, example_label_ix, doc_spans,
          start_offset, all_spans, optimal_span_list, tokenized_examples,
          raised, tf_example>>

writeVars == <<examples_s, idx, all_tf_examples, written,
               num_tokenized_examples>>

windowVars == <<all_doc_tokens, all_doc_labels, example_label_ix, doc_spans,
                start_offset, all_spans, optimal_span_list>>

paramVars == <<call, examples, max_seq_length, doc_stride, use_neg_labels,
               text_preprocessing, run, first_written, first_num>>

(* ------------------------------- inputs -------------------------------- *)
DocWords == {"", "zz", "a", "weekend"}

\* label ids: -2 is a negative id other than the padding marker
LabelIds == {-2, -1, 7}

NonNegLabelIds == {-1, 7}

BatchWords == {"weekend"}

\* a source example read from a file: as many labels as words, no flags
SourceExample(sentence_id, doc) ==
  InputExample(sentence_id,
               [i \in 1..Len(doc) |-> doc[i][1]],
               [i \in 1..Len(doc) |-> doc[i][2]],
               <<>>)

\* documents of at most n words with label ids from L
Docs(n, L) == SeqsUpTo(DocWords \X L, n)

\* the documents of the lists given to write_example_to_file
BatchDocs == SeqsUpTo(BatchWords \X NonNegLabelIds, MaxBatchWords)

\* documents longer than a hundred subwords: one word the tokenizer splits
\* into LongPieces pieces, then up to two ordinary words
LongDocs ==
  {<<<<"long", l>>>> \o d : l \in NonNegLabelIds,
                            d \in SeqsUpTo({"a", "weekend"} \X NonNegLabelIds, 2)}

\* already tokenized examples handed to _convert_single_example directly
TokenizedExamples ==
  {InputExample(0, [i \in 1..Len(ls) |-> <<"a", 1>>], ls,
                [i \in 1..Len(ls) |-> IF ls[i] # _PADDING_LABEL_ID
                                      THEN 1 ELSE 0]) :
     ls \in SeqsUpTo(NonNegLabelIds, MaxTokens)}

\* the lists of source examples; sentence ids are assigned in reading order
ExampleLists(n) ==
  {[i \in 1..Len(ds) |-> SourceExample(i - 1, ds[i])] :
     ds \in SeqsUpTo(BatchDocs, n)}

\* the example of the docstring of write_example_to_file
DocstringDoc ==
  <<<<"What", 7>>, <<"a", 5>>, <<"great", 9>>, <<"weekend", 10>>>>

NoExample == InputExample(0, <<>>, <<>>, <<>>)

\* the orderings of the list s
Reorderings(s) ==
  {q \in [1..Len(s) -> Range(s)] : SeqToBag(q) = SeqToBag(s)}

InitLocals ==
  /\ examples_s = <<>>
  /\ idx = 1
  /\ all_tf_examples = <<>>
  /\ written = <<>>
  /\ num_tokenized_examples = 0
  /\ run = 1
  /\ first_written = <<>>
  /\ first_num = 0
  /\ all_doc_tokens = <<>>
  /\ all_doc_labels = <<>>
  /\ example_label_ix = <<>>
  /\ doc_spans = <<>>
  /\ start_offset = 0
  /\ all_spans = <<>>
  /\ optimal_span_list = <<>>
  /\ tokenized_examples = <<>>
  /\ raised = FALSE
  /\ tf_example = <<>>

InitWrite(maxExamples) ==
  /\ call = "write"
  /\ pc = "write"
  /\ example = NoExample
  /\ max_seq_length \in 3..MaxBatchSeqLength
  /\ doc_stride \in 0..MaxBatchStride
  /\ use_neg_labels = TRUE
  /\ \/ /\ examples \in ExampleLists(maxExamples)
        /\ text_preprocessing = "none"
     \/ /\ examples = <<SourceExample(0, DocstringDoc)>>
        /\ text_preprocessing = "lower"

\* with use_neg_labels true a negative label id is a label id like any other
InitTokenize(maxWords) ==
  /\ call = "tokenize"
  /\ pc = "tokenize"
  /\ examples = <<>>
  /\ max_seq_length \in 3..MaxSeqLength
  /\ doc_stride = 0
  /\ \/ /\ use_neg_labels = TRUE
        /\ example \in {SourceExample(0, d) : d \in Docs(maxWords, NonNegLabelIds)}
        /\ text_preprocessing = "none"
     \/ /\ use_neg_labels = FALSE
        /\ example \in {SourceExample(0, d) : d \in Docs(maxWords, LabelIds)}
        /\ text_preprocessing = "none"
     \/ /\ use_neg_labels \in BOOLEAN
        /\ example = SourceExample(0, DocstringDoc)
        /\ text_preprocessing \in {"none", "lower"}

InitConvert(maxWords) ==
  /\ call = "convert"
  /\ pc = "convert"
  /\ examples = <<>>
  /\ use_neg_labels = TRUE
  /\ text_preprocessing = "none"
  /\ \/ /\ example \in {SourceExample(0, d) : d \in Docs(maxWords, NonNegLabelIds)}
        /\ max_seq_length \in 3..MaxSeqLength
        /\ doc_stride \in 1..MaxStride
     \/ /\ example \in {SourceExample(0, d) : d \in LongDocs}
        /\ max_seq_length = LongSeqLength
        /\ doc_stride \in (LongSeqLength - 5)..(LongSeqLength - 2)

InitSingle ==
  /\ call = "single"
  /\ pc = "single"
  /\ examples = <<>>
  /\ example \in TokenizedExamples
  /\ max_seq_length \in 3..MaxSeqLength
  /\ doc_stride = 0
  /\ use_neg_labels = TRUE
  /\ text_preprocessing = "none"

Init ==
  /\ InitLocals
  /\ \/ InitWrite(MaxExamples)
     \/ InitTokenize(MaxWords)
     \/ InitConvert(MaxWords)
     \/ InitSingle

\* the same calls on the smaller inputs used for the liveness check
InitFair ==
  /\ InitLocals
  /\ \/ InitWrite(FairMaxExamples)
     \/ InitTokenize(FairMaxWords)
     \/ InitConvert(FairMaxWords)
     \/ InitSingle

(* ------------------------------ actions -------------------------------- *)
\* the flattening of convert_examples_to_features and the start of the
\* span loop, for the example ex
StartWindows(ex) ==
  /\ example' = ex
  /\ all_doc_tokens' = FlattenTokens(ex, 1)
  /\ all_doc_labels' = FlattenLabels(ex, 1)
  /\ example_label_ix' = LabelIx(FlattenLabels(ex, 1), 0)
  /\ doc_spans' = <<>>
  /\ all_spans' = <<>>
  /\ optimal_span_list' = <<>>
  /\ start_offset' = 0
  /\ pc' = "spans"

\* write_example_to_file up to the loop over examples_s: count_labels
\* filter, then sort
FilterAndSort ==
  /\ pc = "write"
  /\ examples_s' = SortedByCount(FilterLabeled(examples, 1),
                                 Len(FilterLabeled(examples, 1)))
  /\ idx' = 1
  /\ all_tf_examples' = <<>>
  /\ written' = <<>>
  /\ pc' = "loop"
  /\ UNCHANGED <<paramVars, windowVars, example, num_tokenized_examples,
                 tokenized_examples, raised, tf_example>>

\* perform_convert_to_features, "if doc_stride:" branch
PerformConvertWindows ==
  /\ pc = "loop"
  /\ idx <= Len(examples_s)
  /\ doc_stride # 0
  /\ StartWindows(examples_s[idx])
  /\ UNCHANGED <<paramVars, writeVars, tokenized_examples, raised, tf_example>>

\* perform_convert_to_features, else branch: _tokenize_example with the
\* default use_neg_labels=True, which never raises
PerformConvertTruncate ==
  /\ pc = "loop"
  /\ idx <= Len(examples_s)
  /\ doc_stride = 0
  /\ example' = examples_s[idx]
  /\ tokenized_examples' = TokenizeExample(examples_s[idx], max_seq_length,
                                         text_preprocessing)
  /\ pc' = "assemble"
  /\ UNCHANGED <<paramVars, writeVars, windowVars, raised, tf_example>>

\* one iteration of "while start_offset < len(all_doc_tokens)"
SpanStep ==
  /\ pc = "spans"
  /\ start_offset < Len(all_doc_tokens)
  /\ LET length == SpanLength(Len(all_doc_tokens), start_offset,
                              max_seq_length - 2)
         span_labels == SpanLabels(example_label_ix, 1, start_offset, length)
         in_span == span_labels # <<>>
     IN /\ doc_spans' = IF in_span
                        THEN Append(doc_spans,
                                    _DocSpan(start_offset, length, span_labels,
                                             Repeat(0, length)))
                        ELSE doc_spans
        /\ all_spans' = Append(all_spans,
                               [start |-> start_offset, length |-> length])
        /\ IF start_offset + length = Len(all_doc_tokens)
           THEN /\ pc' = "select"
                /\ start_offset' = start_offset
           ELSE /\ pc' = "spans"
                /\ start_offset' = NextStart(start_offset, length, doc_stride)
  /\ UNCHANGED <<paramVars, writeVars, example, all_doc_tokens, all_doc_labels,
                 example_label_ix, optimal_span_list, tokenized_examples,
                 raised, tf_example>>

\* the loop condition fails: start_offset >= len(all_doc_tokens)
SpanExit ==
  /\ pc = "spans"
  /\ ~(start_offset < Len(all_doc_tokens))
  /\ pc' = "select"
  /\ UNCHANGED <<paramVars, writeVars, windowVars, example, tokenized_examples,
                 raised, tf_example>>

\* the max-context pass over doc_spans and the construction of all_examples
SelectMaxContext ==
  /\ pc = "select"
  /\ optimal_span_list' = OptimalSpanList(doc_spans, 1, example_label_ix)
  /\ doc_spans' = [k \in 1..Len(doc_spans) |->
                     [doc_spans[k] EXCEPT !.best_context =
                        MarkBestContext(doc_spans, k, example_label_ix)]]
  /\ tokenized_examples' =
       SpanExamples(example.sentence_id, all_doc_tokens, all_doc_labels,
                    OptimalSpanList(doc_spans, 1, example_label_ix))
  /\ pc' = IF call = "write" THEN "assemble" ELSE "done"
  /\ UNCHANGED <<paramVars, writeVars, example, all_doc_tokens, all_doc_labels,
                 example_label_ix, start_offset, all_spans, raised, tf_example>>

\* the loop over tokenized_examples of perform_convert_to_features and
\* all_tf_examples.extend
AssembleFeatures ==
  /\ pc = "assemble"
  /\ all_tf_examples' =
       all_tf_examples \o TfExamples(tokenized_examples, max_seq_length)
  /\ idx' = idx + 1
  /\ pc' = "loop"
  /\ UNCHANGED <<paramVars, windowVars, example, examples_s, written,
                 num_tokenized_examples, tokenized_examples, raised,
                 tf_example>>

\* the end of write_example_to_file: count, write every record, return
WriteRecords ==
  /\ pc = "loop"
  /\ idx > Len(examples_s)
  /\ num_tokenized_examples' = Len(all_tf_examples)
  /\ written' = written \o all_tf_examples
  /\ pc' = "done"
  /\ UNCHANGED <<paramVars, windowVars, example, examples_s, idx,
                 all_tf_examples, tokenized_examples, raised, tf_example>>

\* write_example_to_file called again on a reordering of the same list
WriteReordered ==
  /\ pc = "done"
  /\ call = "write"
  /\ run = 1
  /\ run' = 2
  /\ first_written' = written
  /\ first_num' = num_tokenized_examples
  /\ examples' \in Reorderings(examples)
  /\ pc' = "write"
  /\ UNCHANGED <<call, max_seq_length, doc_stride, use_neg_labels,
                 text_preprocessing, writeVars,
                 windowVars, example, tokenized_examples, raised, tf_example>>

\* _tokenize_example called directly
TokenizeCall ==
  /\ pc = "tokenize"
  /\ IF TokenizeRaises(example, use_neg_labels)
     THEN /\ raised' = TRUE
          /\ tokenized_examples' = <<>>
     ELSE /\ raised' = FALSE
          /\ tokenized_examples' =
               TokenizeExample(example, max_seq_length, text_preprocessing)
  /\ pc' = "done"
  /\ UNCHANGED <<paramVars, writeVars, windowVars, example, tf_example>>

\* convert_examples_to_features called directly
ConvertCall ==
  /\ pc = "convert"
  /\ StartWindows(example)
  /\ UNCHANGED <<paramVars, writeVars, tokenized_examples, raised, tf_example>>

\* _convert_single_example called directly
ConvertSingleCall ==
  /\ pc = "single"
  /\ tf_example' = <<ConvertSingleExample(example, max_seq_length)>>
  /\ pc' = "done"
  /\ UNCHANGED <<paramVars, writeVars, windowVars, example, tokenized_examples,
                 raised>>

Next ==
  \/ FilterAndSort
  \/ PerformConvertWindows
  \/ PerformConvertTruncate
  \/ SpanStep
  \/ SpanExit
  \/ SelectMaxContext
  \/ AssembleFeatures
  \/ WriteRecords
  \/ WriteReordered
  \/ TokenizeCall
  \/ ConvertCall
  \/ ConvertSingleCall

Spec == Init /\ [][Next]_vars

\* the program is sequential and keeps running until it returns
FairSpec == InitFair /\ [][Next]_vars /\ WF_vars(Next)

TypeOK ==
  /\ pc \in {"write", "loop", "spans", "select", "assemble", "tokenize",
             "convert", "single", "done"}
  /\ idx \in 1..(MaxExamples + 2)

(* ------------------------- notions of the claims ----------------------- *)
\* convert_examples_to_features has returned tokenized_examples
WindowsDone ==
  \/ call = "convert" /\ pc = "done"
  \/ call = "write" /\ doc_stride # 0 /\ pc = "assemble"

TotalLength == Len(all_doc_tokens)

\* the labeled (non-padding) global subword positions, 0-based
LabeledPositions ==
  {p \in 0..(TotalLength - 1) : all_doc_labels[p + 1] # _PADDING_LABEL_ID}

Covers(span, p) == span.start <= p /\ p < span.start + span.length

MinContext(span, p) ==
  Min(p - span.start, span.start + span.length - 1 - p)

\* the emitted windows (by index) that flag position p as best_context
FlaggedIn(p) ==
  {w \in 1..Len(tokenized_examples) :
     /\ Covers(optimal_span_list[w], p)
     /\ tokenized_examples[w].best_context[p - optimal_span_list[w].start + 1]
          = 1}

\* the retained spans (by index) whose own flag array marks position p
OwnersOf(p) ==
  {k \in 1..Len(doc_spans) :
     /\ Covers(doc_spans[k], p)
     /\ doc_spans[k].best_context[p - doc_spans[k].start + 1] = 1}

CoveringSpans(p) == {k \in 1..Len(doc_spans) : Covers(doc_spans[k], p)}

(* ------------------------------- claims -------------------------------- *)
\* C1: every labeled global subword position is flagged best_context in
\* exactly one window emitted by convert_examples_to_features.
BestContextUnique ==
  WindowsDone =>
    /\ Len(tokenized_examples) = Len(optimal_span_list)
    /\ \A p \in LabeledPositions : Cardinality(FlaggedIn(p)) = 1

\* a labeled position lies in two emitted windows and is flagged in one
BestContextUniqueWitness ==
  /\ WindowsDone
  /\ \E p \in LabeledPositions :
       /\ Cardinality({w \in 1..Len(optimal_span_list) :
                         Covers(optimal_span_list[w], p)}) >= 2
       /\ Cardinality(FlaggedIn(p)) = 1

\* C2 as stated: the retained doc_spans cover [0, total_length) without a
\* gap and the last of them ends at total_length.
DocSpansCoverAll ==
  pc = "select" =>
    /\ \A p \in 0..(TotalLength - 1) : CoveringSpans(p) # {}
    /\ doc_spans # <<>> =>
         doc_spans[Len(doc_spans)].start + doc_spans[Len(doc_spans)].length
           = TotalLength

\* C2 amended: the spans the loop computes, dropped ones included, start at
\* 0, leave no gap, stay inside the document and end at total_length; the
\* retained doc_spans are exactly the computed spans holding a labeled
\* position, so every labeled position is covered by a retained span.
GeneratedSpansCoverAll ==
  pc = "select" =>
    /\ \A p \in 0..(TotalLength - 1) :
         \E k \in 1..Len(all_spans) : Covers(all_spans[k], p)
    /\ \A k \in 1..(Len(all_spans) - 1) :
         all_spans[k + 1].start <= all_spans[k].start + all_spans[k].length
    /\ all_spans # <<>> =>
         /\ all_spans[1].start = 0
         /\ all_spans[Len(all_spans)].start + all_spans[Len(all_spans)].length
              = TotalLength
    /\ TotalLength > 0 => all_spans # <<>>
    /\ {[start |-> doc_spans[k].start, length |-> doc_spans[k].length] :
          k \in 1..Len(doc_spans)}
         = {all_spans[k] : k \in {j \in 1..Len(all_spans) :
                                    \E p \in LabeledPositions :
                                      Covers(all_spans[j], p)}}
    /\ \A p \in LabeledPositions : CoveringSpans(p) # {}

\* several spans were computed, one of them was dropped, and the retained
\* ones leave a token uncovered
GeneratedSpansCoverAllWitness ==
  /\ pc = "select"
  /\ Len(all_spans) >= 3
  /\ Len(doc_spans) < Len(all_spans)
  /\ doc_spans # <<>>
  /\ \E p \in 0..(TotalLength - 1) : CoveringSpans(p) = {}

\* C3: the span loop terminates: the start offset strictly increases from
\* one iteration to the next, the loop is left at the span that ends at
\* total_length, every call returns, and write_example_to_file with
\* doc_stride 0 or unset never enters the loop.
SpanLoopTerminates ==
  /\ [][pc = "spans" /\ pc' = "spans" => start_offset' > start_offset]_vars
  /\ [](pc = "select" /\ TotalLength > 0 =>
          /\ all_spans # <<>>
          /\ all_spans[Len(all_spans)].start = start_offset
          /\ start_offset + all_spans[Len(all_spans)].length = TotalLength)
  /\ [](call = "write" /\ doc_stride = 0 => pc \notin {"spans", "select"})
  /\ (pc = "spans" ~> pc = "select")
  /\ <>(pc = "done")

\* the loop ran at least three iterations and has ended
SpanLoopTerminatesWitness ==
  /\ pc = "select"
  /\ Len(all_spans) >= 3
  /\ start_offset + all_spans[Len(all_spans)].length = TotalLength

\* C4: of two spans that cover a labeled position with the same
\* min(left, right), the shorter one, or the later one when they are
\* equally long, is never the owner; when no other span covers the
\* position, the longer, or else the earlier, one is the owner.
MaxContextTieBreak ==
  WindowsDone =>
    \A p \in LabeledPositions : \A i, j \in CoveringSpans(p) :
      /\ i # j
      /\ MinContext(doc_spans[i], p) = MinContext(doc_spans[j], p)
      /\ \/ doc_spans[i].length > doc_spans[j].length
         \/ doc_spans[i].length = doc_spans[j].length /\ i < j
      => /\ j \notin OwnersOf(p)
         /\ CoveringSpans(p) = {i, j} => OwnersOf(p) = {i}

\* one document shows both ties: two equally long spans and two spans of
\* different lengths, each pair alone on its position
MaxContextTieBreakWitness ==
  /\ WindowsDone
  /\ \E p \in LabeledPositions : \E i, j \in CoveringSpans(p) :
       /\ CoveringSpans(p) = {i, j}
       /\ i < j
       /\ MinContext(doc_spans[i], p) = MinContext(doc_spans[j], p)
       /\ doc_spans[i].length = doc_spans[j].length
       /\ OwnersOf(p) = {i}
  /\ \E p \in LabeledPositions : \E i, j \in CoveringSpans(p) :
       /\ CoveringSpans(p) = {i, j}
       /\ MinContext(doc_spans[i], p) = MinContext(doc_spans[j], p)
       /\ doc_spans[i].length > doc_spans[j].length
       /\ OwnersOf(p) = {i}

\* C5 as stated: the window that flags a labeled position gives it the
\* largest min(left, right) among the retained spans covering it.
OwnerHasMaxMinContext ==
  WindowsDone =>
    \A p \in LabeledPositions : \A w \in FlaggedIn(p) : \A k \in CoveringSpans(p) :
      MinContext(optimal_span_list[w], p) >= MinContext(doc_spans[k], p)

\* a feature record whose five arrays all have length n
RecordHasLength(r, n) ==
  /\ Len(r.input_ids) = n
  /\ Len(r.input_mask) = n
  /\ Len(r.segment_ids) = n
  /\ Len(r.label_ids) = n
  /\ Len(r.best_context) = n

\* C6: every record write_example_to_file builds or writes has five arrays
\* of length max_seq_length, and every example it hands to
\* _convert_single_example has at most max_seq_length - 2 tokens and as many
\* best_context flags as tokens.
LengthInvariant ==
  call = "write" =>
    /\ \A k \in 1..Len(all_tf_examples) :
         RecordHasLength(all_tf_examples[k], max_seq_length)
    /\ \A k \in 1..Len(written) : RecordHasLength(written[k], max_seq_length)
    /\ pc = "assemble" =>
         \A k \in 1..Len(tokenized_examples) :
           /\ Len(tokenized_examples[k].words) <= max_seq_length - 2
           /\ Len(tokenized_examples[k].best_context)
                = Len(tokenized_examples[k].words)
           /\ Len(tokenized_examples[k].label_ids)
                = Len(tokenized_examples[k].words)

\* the truncation path wrote a padded record that carries a real label
LengthInvariantWitness ==
  /\ call = "write"
  /\ doc_stride = 0
  /\ pc = "done"
  /\ \E k \in 1..Len(written) :
       /\ written[k].input_mask[max_seq_length] = 0
       /\ written[k].label_ids[2] # _PADDING_LABEL_ID

\* C7: every example returned by _tokenize_example or by
\* convert_examples_to_features holds a label other than -1, and so does
\* every record built from them by write_example_to_file.
LabelCoverage ==
  /\ \A k \in 1..Len(tokenized_examples) :
       \E q \in 1..Len(tokenized_examples[k].label_ids) :
         tokenized_examples[k].label_ids[q] # _PADDING_LABEL_ID
  /\ call = "write" =>
       \A k \in 1..Len(all_tf_examples) :
         \E q \in 1..Len(all_tf_examples[k].label_ids) :
           all_tf_examples[k].label_ids[q] # _PADDING_LABEL_ID

\* _tokenize_example returned fewer subwords than the labeled source
\* example expands to: a chunk without a real label was dropped
LabelCoverageWitness ==
  /\ call = "tokenize"
  /\ pc = "done"
  /\ ~raised
  /\ tokenized_examples # <<>>
  /\ Len(tokenized_examples) = 1
  /\ Len(example.words) = 3
  /\ \A i \in 1..3 : example.words[i] = "a"
  /\ max_seq_length = 3
  /\ example.label_ids[2] = _PADDING_LABEL_ID

\* C8 as stated: with use_neg_labels false the call raises exactly when a
\* negative label id other than -1 is present, and returns nothing then.
RaisesOnlyOnNonReservedNegative ==
  call = "tokenize" /\ pc = "done" /\ ~use_neg_labels =>
    /\ raised <=> \E k \in 1..Len(example.label_ids) :
                    /\ example.label_ids[k] < 0
                    /\ example.label_ids[k] # _PADDING_LABEL_ID
    /\ raised => tokenized_examples = <<>>

\* C8 amended: with use_neg_labels false the call raises exactly when any
\* negative label id, the padding marker -1 included, is present, and
\* returns nothing then.
RaisesOnAnyNegative ==
  call = "tokenize" /\ pc = "done" /\ ~use_neg_labels =>
    /\ raised <=> \E k \in 1..Len(example.label_ids) :
                    example.label_ids[k] < 0
    /\ raised => tokenized_examples = <<>>

\* the call raised on an example whose only negative label id is -1
RaisesOnAnyNegativeWitness ==
  /\ call = "tokenize"
  /\ pc = "done"
  /\ ~use_neg_labels
  /\ raised
  /\ \E k \in 1..Len(example.label_ids) : example.label_ids[k] = -1
  /\ \A k \in 1..Len(example.label_ids) : example.label_ids[k] >= -1

\* C9 as stated: _convert_single_example on an example of more than
\* max_seq_length - 2 tokens ends in an error and returns no record.
OversizeExampleRejected ==
  call = "single" /\ pc = "done" /\ Len(example.words) > max_seq_length - 2 =>
    raised /\ tf_example = <<>>

\* C10: the call on a reordered list writes the same multiset of records
\* and returns the same count as the call on the original list; the count
\* is the number of records written; a source example without a real label
\* contributes no record.
ReorderingKeepsRecords ==
  call = "write" /\ pc = "done" =>
    /\ num_tokenized_examples = Len(written)
    /\ \A i \in 1..Len(examples) :
         count_labels(examples[i]) = 0 =>
           \A k \in 1..Len(written) :
             written[k].sentence_id # examples[i].sentence_id
    /\ run = 2 =>
         /\ SeqToBag(written) = SeqToBag(first_written)
         /\ num_tokenized_examples = first_num

\* the second call wrote the records of the first call in another order
ReorderingKeepsRecordsWitness ==
  /\ call = "write"
  /\ pc = "done"
  /\ run = 2
  /\ written # first_written
  /\ Len(written) >= 2
  /\ SeqToBag(written) = SeqToBag(first_written)

(* ------------------ notions of the claims on expansion ----------------- *)
\* _tokenize_example has returned tokenized_examples
TokenizeDone ==
  \/ call = "tokenize" /\ pc = "done" /\ ~raised
  \/ call = "write" /\ doc_stride = 0 /\ pc = "assemble"

\* the effective budget, max_length - 2
Budget == max_seq_length - 2

\* the words of the source example as the tokenizer sees them in
\* _tokenize_example
PreWords ==
  [i \in 1..Len(example.words) |->
     IF text_preprocessing = "lower" /\ example.words[i] = "What"
     THEN "what" ELSE example.words[i]]

\* the subwords a word is expected to contribute: nothing for the empty
\* string, [UNK] for a word of zero pieces or, where the budget applies, of
\* more pieces than the budget, its pieces otherwise
ExpectedPieces(word, limited) ==
  IF word = "" THEN <<>>
  ELSE IF Pieces(word) = 0 \/ (limited /\ Pieces(word) > Budget)
  THEN <<_UNK_TOKEN>>
  ELSE [j \in 1..Pieces(word) |-> <<word, j>>]

\* the expected subwords of the words lo..hi
RECURSIVE ExpectedTokens(_, _, _, _)
ExpectedTokens(words, lo, hi, limited) ==
  IF lo > hi THEN <<>>
  ELSE ExpectedPieces(words[lo], limited)
         \o ExpectedTokens(words, lo + 1, hi, limited)

\* the expected labels of the subwords of the words lo..hi: the word's
\* label on its first subword, -1 on the others
RECURSIVE ExpectedLabels(_, _, _, _, _)
ExpectedLabels(words, labels, lo, hi, limited) ==
  IF lo > hi THEN <<>>
  ELSE [j \in 1..Len(ExpectedPieces(words[lo], limited)) |->
          IF j = 1 THEN labels[lo] ELSE -1]
         \o ExpectedLabels(words, labels, lo + 1, hi, limited)

\* flags that are set exactly at the labels other than -1
ExpectedFlags(labels) ==
  [q \in 1..Len(labels) |-> IF labels[q] # -1 THEN 1 ELSE 0]

SomeRealLabel(labels) == \E q \in 1..Len(labels) : labels[q] # -1

\* the single example a short source example is expected to give
WholeExample(words, limited) ==
  LET n == Len(words)
      labels == ExpectedLabels(words, example.label_ids, 1, n, limited)
  IN InputExample(example.sentence_id, ExpectedTokens(words, 1, n, limited),
                  labels, ExpectedFlags(labels))

\* the source example expands to at most max_seq_length - 2 subwords
ShortInput(words, limited) ==
  Len(ExpectedTokens(words, 1, Len(words), limited)) <= Budget

(* -------------------------- claims on expansion ------------------------ *)
\* C11 as stated: a source example that has a real label and expands to at
\* most max_seq_length - 2 subwords gives exactly one example, in
\* _tokenize_example and in convert_examples_to_features alike: the whole
\* subword sequence with its labels, the source id and the flags set
\* exactly at the real labels.
ShortInputOneExample ==
  /\ TokenizeDone /\ ShortInput(PreWords, TRUE)
       /\ SomeRealLabel(example.label_ids)
     => tokenized_examples = <<WholeExample(PreWords, TRUE)>>
  /\ WindowsDone /\ ShortInput(example.words, FALSE)
       /\ SomeRealLabel(example.label_ids)
     => tokenized_examples = <<WholeExample(example.words, FALSE)>>

\* C11 amended: a source example whose subword label sequence holds a real
\* label (the label of an empty-string word is on no subword) and that
\* expands to at most max_seq_length - 2 subwords gives exactly one
\* example, in _tokenize_example and in convert_examples_to_features with a
\* positive doc_stride alike: the whole subword sequence with its labels,
\* the source id and the flags set exactly at the real labels; when only
\* empty-string words carry real labels, no example is returned.
ShortInputOneLabeledExample ==
  /\ TokenizeDone /\ ShortInput(PreWords, TRUE) =>
       tokenized_examples =
         IF SomeRealLabel(WholeExample(PreWords, TRUE).label_ids)
         THEN <<WholeExample(PreWords, TRUE)>> ELSE <<>>
  /\ WindowsDone /\ ShortInput(example.words, FALSE) =>
       tokenized_examples =
         IF SomeRealLabel(WholeExample(example.words, FALSE).label_ids)
         THEN <<WholeExample(example.words, FALSE)>> ELSE <<>>

\* convert_examples_to_features returned one example for a source example
\* that holds a labeled empty-string word, a word split in two and an
\* unlabeled subword
ShortInputOneLabeledExampleWitness ==
  /\ WindowsDone
  /\ ShortInput(example.words, FALSE)
  /\ \E i \in 1..Len(example.words) :
       example.words[i] = "" /\ example.label_ids[i] # -1
  /\ Len(tokenized_examples) = 1
  /\ Len(tokenized_examples[1].words) >= 3
  /\ \E q \in 1..Len(tokenized_examples[1].words) :
       tokenized_examples[1].best_context[q] = 0

\* the flattening loop of convert_examples_to_features has run
FlattenDone ==
  \/ call = "convert" /\ pc \in {"spans", "select", "done"}
  \/ call = "write" /\ doc_stride # 0 /\ pc \in {"spans", "select", "assemble"}

\* C12: flattening gives every word's first subword the word's label and
\* its later subwords -1, and example_label_ix lists the positions with a
\* label other than -1; every example returned by _tokenize_example holds
\* the subwords of a run of consecutive source words, labeled the same
\* way, with the best_context flag set exactly where the label is not -1.
FirstSubwordCarriesLabel ==
  /\ FlattenDone =>
       /\ all_doc_labels = ExpectedLabels(example.words, example.label_ids,
                                          1, Len(example.words), FALSE)
       /\ Len(all_doc_tokens) = Len(all_doc_labels)
       /\ Range(example_label_ix) = LabeledPositions
  /\ TokenizeDone =>
       \A k \in 1..Len(tokenized_examples) :
         /\ \E lo, hi \in 1..Len(example.words) :
              /\ tokenized_examples[k].words
                   = ExpectedTokens(PreWords, lo, hi, TRUE)
              /\ tokenized_examples[k].label_ids
                   = ExpectedLabels(PreWords, example.label_ids, lo, hi, TRUE)
         /\ tokenized_examples[k].best_context
              = ExpectedFlags(tokenized_examples[k].label_ids)

\* _tokenize_example returned an example where a labeled word split in two
\* has its label on the first subword only, next to an unlabeled word
FirstSubwordCarriesLabelWitness ==
  /\ TokenizeDone
  /\ \E k \in 1..Len(tokenized_examples) :
       LET e == tokenized_examples[k]
       IN \E q \in 1..(Len(e.words) - 1) :
            /\ e.words[q] = <<"weekend", 1>>
            /\ e.words[q + 1] = <<"weekend", 2>>
            /\ e.label_ids[q] = 7
            /\ e.label_ids[q + 1] = -1
            /\ e.best_context[q] = 1
            /\ e.best_context[q + 1] = 0
            /\ Len(e.words) >= 3

(* ------------------- notions of the claims on packing ------------------ *)
\* the subwords each word of the source example is expected to contribute
\* in _tokenize_example
WordPieces ==
  [i \in 1..Len(example.words) |-> ExpectedPieces(PreWords[i], TRUE)]

\* the same when the empty string too counts as a word of zero pieces
WordPiecesEmptyReplaced ==
  [i \in 1..Len(example.words) |->
     IF Pieces(PreWords[i]) = 0 \/ Pieces(PreWords[i]) > Budget
     THEN <<_UNK_TOKEN>>
     ELSE [j \in 1..Pieces(PreWords[i]) |-> <<PreWords[i], j>>]]

\* the subwords of the words lo..hi
RECURSIVE RunTokens(_, _, _)
RunTokens(pieces, lo, hi) ==
  IF lo > hi THEN <<>> ELSE pieces[lo] \o RunTokens(pieces, lo + 1, hi)

\* their labels: the word's label on a word's first subword, -1 elsewhere
RECURSIVE RunLabels(_, _, _)
RunLabels(pieces, lo, hi) ==
  IF lo > hi THEN <<>>
  ELSE [j \in 1..Len(pieces[lo]) |->
          IF j = 1 THEN example.label_ids[lo] ELSE -1]
         \o RunLabels(pieces, lo + 1, hi)

\* the runs of consecutive words that the cuts (a cut c separates word c
\* from word c + 1) divide the words 1..n into, as pairs <<lo, hi>>
RECURSIVE RunsFrom(_, _, _)
RunsFrom(lo, cuts, n) ==
  IF lo > n THEN <<>>
  ELSE LET ends == {c \in cuts : c >= lo} \cup {n}
           hi == CHOOSE c \in ends : \A d \in ends : c <= d
       IN <<<<lo, hi>>>> \o RunsFrom(hi + 1, cuts, n)

\* the examples expected from packing with the given cuts: one per run, in
\* source order, the runs without a real label left out
Packed(pieces, cuts) ==
  LET runs == RunsFrom(1, cuts, Len(example.words))
      all == [k \in 1..Len(runs) |->
                InputExample(example.sentence_id,
                             RunTokens(pieces, runs[k][1], runs[k][2]),
                             RunLabels(pieces, runs[k][1], runs[k][2]),
                             ExpectedFlags(RunLabels(pieces, runs[k][1],
                                                     runs[k][2])))]
      Labeled(e) == SomeRealLabel(e.label_ids)
  IN SelectSeq(all, Labeled)

CutSets == SUBSET (1..(Len(example.words) - 1))

(* --------------------------- claims on packing ------------------------- *)
\* C13 as stated: with max_length > 2, every word of zero pieces or of
\* more than max_length - 2 pieces, the empty string included, contributes
\* the single subword [UNK] with the word's label, and no word is dropped
\* from the expanded sequence.
EveryBadWordReplaced ==
  TokenizeDone /\ max_seq_length > 2 =>
    \E cuts \in CutSets :
      tokenized_examples = Packed(WordPiecesEmptyReplaced, cuts)

\* C13 amended: with max_length > 2, every non-empty word of zero pieces
\* or of more than max_length - 2 pieces contributes the single subword
\* [UNK] with the word's label, every other non-empty word its own pieces,
\* and an empty-string word no subword at all, so that no word contributes
\* more than max_length - 2 subwords; the returned examples hold these
\* subwords, word by word in source order.
NonEmptyBadWordReplaced ==
  TokenizeDone /\ max_seq_length > 2 =>
    \E cuts \in CutSets : tokenized_examples = Packed(WordPieces, cuts)

\* with a budget of one subword, a labeled word of zero pieces and a
\* labeled word of two pieces each came back as [UNK] with the word's
\* label, and an empty-string word left no subword
NonEmptyBadWordReplacedWitness ==
  /\ TokenizeDone
  /\ Budget = 1
  /\ \E i, j, l \in 1..Len(example.words) :
       /\ example.words[i] = "zz" /\ example.label_ids[i] = 7
       /\ example.words[j] = "weekend" /\ example.label_ids[j] = 7
       /\ example.words[l] = ""
  /\ Len(tokenized_examples) = 2
  /\ \A k \in 1..2 :
       /\ tokenized_examples[k].words = <<_UNK_TOKEN>>
       /\ tokenized_examples[k].label_ids = <<7>>

\* the source example is the docstring example of write_example_to_file
IsDocstringExample(ex) ==
  /\ ex.words = <<"What", "a", "great", "weekend">>
  /\ ex.label_ids = <<7, 5, 9, 10>>
  /\ text_preprocessing = "lower"
  /\ max_seq_length = 5

\* the two examples the docstring expects; "week" and "##end" are the two
\* pieces of "weekend"
DocstringExamples(sentence_id) ==
  <<InputExample(sentence_id, <<<<"what", 1>>, <<"a", 1>>, <<"great", 1>>>>,
                 <<7, 5, 9>>, <<1, 1, 1>>),
    InputExample(sentence_id, <<<<"weekend", 1>>, <<"weekend", 2>>>>,
                 <<10, -1>>, <<1, 0>>)>>

\* C14: the examples _tokenize_example returns are the labeled ones among
\* consecutive runs of whole words, in source order and with the source
\* sentence_id; every run holds at most max_length - 2 subwords, and a run
\* ends before a word only when that word's subwords do not fit in it.
\* The docstring example gives [what, a, great] with labels [7, 5, 9] and
\* [week, ##end] with labels [10, -1], written as two records of length 5.
GreedyWordAlignedPacking ==
  /\ TokenizeDone =>
       /\ \E cuts \in CutSets :
            LET runs == RunsFrom(1, cuts, Len(example.words))
            IN /\ tokenized_examples = Packed(WordPieces, cuts)
               /\ \A k \in 1..Len(runs) :
                    Len(RunTokens(WordPieces, runs[k][1], runs[k][2]))
                      <= Budget
               /\ \A k \in 1..(Len(runs) - 1) :
                    Len(RunTokens(WordPieces, runs[k][1], runs[k][2]))
                      + Len(WordPieces[runs[k][2] + 1]) > Budget
       /\ \A k \in 1..Len(tokenized_examples) :
            /\ tokenized_examples[k].sentence_id = example.sentence_id
            /\ Len(tokenized_examples[k].words) <= Budget
       /\ IsDocstringExample(example) =>
            tokenized_examples = DocstringExamples(example.sentence_id)
  /\ call = "write" /\ pc = "done" /\ doc_stride = 0
       /\ Len(examples) = 1 /\ IsDocstringExample(examples[1]) =>
       /\ Len(written) = 2
       /\ written[1].label_ids = <<-1, 7, 5, 9, -1>>
       /\ written[2].label_ids = <<-1, 10, -1, -1, -1>>
       /\ written[1].sentence_id = examples[1].sentence_id
       /\ written[2].sentence_id = examples[1].sentence_id

\* _tokenize_example, called directly, split the docstring example after
\* "great", where the two pieces of "weekend" no longer fit
GreedyWordAlignedPackingWitness ==
  /\ call = "tokenize"
  /\ pc = "done"
  /\ ~raised
  /\ IsDocstringExample(example)
  /\ Len(tokenized_examples) = 2
  /\ Len(tokenized_examples[1].words) = Budget
  /\ tokenized_examples[2].label_ids = <<10, -1>>

====
